---- MODULE Spec2Model ----
(***************************************************************************)
(* Model of the in-memory dating-domain store (project/storage.py), the    *)
(* Match record (project/models.py) and the recommendation engine          *)
(* (project/engine.py).                                                    *)
(*                                                                         *)
(* Identifiers produced by gen_uuid (swipe_id, match_id) are fresh on      *)
(* every construction; a dict keyed by them and iterated in insertion      *)
(* order is modelled as a sequence whose index is the identifier.          *)
(***************************************************************************)
EXTENDS Integers, Sequences, FiniteSets

\* ---------------------------------------------------------------- bounds
MaxSwipes == 3      \* add_swipe calls in one run of the store
MaxMatches == 2     \* size of db.matches up to which add_match is called
PopSize == 4        \* users known to the recommendation engine
MaxCands == 3       \* length of the candidate list of compute_matches
MaxTopK == 3        \* top_k ranges over -MaxTopK .. MaxTopK
MaxDeg == 2         \* candidates of a score call lie 0 .. MaxDeg degrees east
MaxMessages == 2    \* length of Conversation.messages up to which send_message is called

\* The users of the store.  Every condition of add_swipe and of
\* _match_exists_between mentions only the two users of the swipe, so two
\* users give every pair shape: {A, B}, {A, A} and {B, B}.
Users == {"A", "B"}
Directions == {"like", "pass"}

\* Optional values: None is the empty tuple, a present value v is <<v>>.
None == <<>>
Some(v) == <<v>>

VARIABLES
    swipes,     \* InMemoryDB.swipes: swipe_id -> Swipe, in insertion order
    matches,    \* InMemoryDB.matches: match_id -> Match, in insertion order
    ret,        \* value returned by the latest add_swipe call (None or Some(match_id))
    pc,         \* position of the compute_matches call: "idle", "ready", "done"
    viewer,     \* compute_matches argument user (a user_id)
    candidates, \* compute_matches argument candidates (user_ids, duplicates allowed)
    top_k,      \* compute_matches argument top_k
    scored,     \* the (score, cand) pairs in the order the loop appended them
    ranked,     \* scored after the sort, cut to scored[:top_k]
    result,     \* value returned by compute_matches
    sc,         \* the score calls of one comparison: position pc, arguments a, b,
                \* b2 and draw r, returned values out (for b) and out2 (for b2)
    conv,       \* a Conversation: participants, messages, last_message_at
    ccall,      \* the latest send_message call: its argument msg and the exception
                \* err it raised (None: it returned)
    race,       \* two interleaved add_swipe calls: p[i] is call i (position,
                \* swipe, locals), overlap is TRUE once the calls have interleaved
    index       \* the indexed reconciler: likes, matched pairs, latest return value

storeVars == <<swipes, matches, ret>>
engineVars == <<pc, viewer, candidates, top_k, scored, ranked, result>>
otherVars == <<sc, conv, ccall, race>>
vars == <<swipes, matches, ret, pc, viewer, candidates, top_k, scored, ranked, result,
          sc, conv, ccall, race, index>>

\* ------------------------------------------------------------- utils.py
\* date.today(), fixed for the run
today == [year |-> 2026, month |-> 11, day |-> 6]

\* (month, day) tuples compare lexicographically; a true comparison counts 1
age_from_birthdate(bd) ==
    today.year - bd.year
        - (IF \/ today.month < bd.month
              \/ (today.month = bd.month /\ today.day < bd.day)
           THEN 1 ELSE 0)

\* ------------------------------------------------------------- models.py
Max(a, b) == IF a >= b THEN a ELSE b
Abs(a) == IF a >= 0 THEN a ELSE 0 - a

\* square root of a perfect square (the locations of the model are chosen so
\* that every squared distance is one)
Sqrt(n) == CHOOSE r \in 0..n : r * r = n

\* variant: dy is left out of the sum
distance_km_to_latonly(self, other) ==
    LET dlat == Abs(self.lat - other.lat)
    IN  111 * Sqrt(dlat * dlat)

\* dx = dlat * 111.0, dy = dlon * 111.0, (dx*dx + dy*dy) ** 0.5, in km;
\* latitudes and longitudes are whole degrees
distance_km_to(self, other) ==
    LET dlat == Abs(self.lat - other.lat)
        dlon == Abs(self.lon - other.lon)
    IN  111 * Sqrt(dlat * dlat + dlon * dlon)

matches_age(pref, a) == pref.age_min <= a /\ a <= pref.age_max

\* variant: the empty fields are counted instead of the filled ones
complete_percentage_missing(p) ==
    LET score == (IF p.display_name # "" THEN 0 ELSE 1)
               + (IF p.birthdate # None THEN 0 ELSE 1)
               + (IF p.gender # None THEN 0 ELSE 1)
               + (IF p.bio # "" THEN 0 ELSE 1)
               + (IF p.photos > 0 THEN 0 ELSE 1)
               + (IF p.location # None THEN 0 ELSE 1)
    IN  (score * 100) \div 6

\* int((score / 6) * 100): truncation of a non-negative quotient
complete_percentage(p) ==
    LET score == (IF p.display_name # "" THEN 1 ELSE 0)
               + (IF p.birthdate # None THEN 1 ELSE 0)
               + (IF p.gender # None THEN 1 ELSE 0)
               + (IF p.bio # "" THEN 1 ELSE 0)
               + (IF p.photos > 0 THEN 1 ELSE 0)
               + (IF p.location # None THEN 1 ELSE 0)
    IN  (score * 100) \div 6

\* Profile.age: None without a birthdate
age(p) == IF p.birthdate = None THEN None ELSE Some(age_from_birthdate(p.birthdate[1]))

Swipe(f, t, d) == [from_user |-> f, to_user |-> t, direction |-> d]

Match(a, b) == [user_a |-> a, user_b |-> b, is_active |-> TRUE]

\* ------------------------------------------------------------ storage.py
\* variant: scans for the swipe's own direction instead of the reverse one
ReverseLikeIn_forward(log, swipe) ==
    \E i \in DOMAIN log :
        /\ log[i].from_user = swipe.from_user
        /\ log[i].to_user = swipe.to_user
        /\ log[i].direction = "like"

\* variant: the direction of the reverse swipe is not looked at
ReverseLikeIn_anydir(log, swipe) ==
    \E i \in DOMAIN log :
        /\ log[i].from_user = swipe.to_user
        /\ log[i].to_user = swipe.from_user

\* the scan of add_swipe: some swipe of the log is a like from the swipe's
\* target back to its actor
ReverseLikeIn(log, swipe) ==
    \E i \in DOMAIN log :
        /\ log[i].from_user = swipe.to_user
        /\ log[i].to_user = swipe.from_user
        /\ log[i].direction = "like"

\* variant: compares the pair in one orientation only
_match_exists_between_oneway(ms, a, b) ==
    \E i \in DOMAIN ms : ms[i].user_a = a /\ ms[i].user_b = b

\* variant: only active matches count
_match_exists_between_active(ms, a, b) ==
    \E i \in DOMAIN ms :
        /\ ms[i].is_active
        /\ \/ (ms[i].user_a = a /\ ms[i].user_b = b)
           \/ (ms[i].user_a = b /\ ms[i].user_b = a)

_match_exists_between(ms, a, b) ==
    \E i \in DOMAIN ms :
        \/ (ms[i].user_a = a /\ ms[i].user_b = b)
        \/ (ms[i].user_a = b /\ ms[i].user_b = a)

add_swipe(swipe) ==
    /\ Len(swipes) < MaxSwipes
    /\ swipes' = Append(swipes, swipe)
    /\ IF /\ swipe.direction = "like"
          /\ ReverseLikeIn(swipes', swipe)
          /\ ~_match_exists_between(matches, swipe.from_user, swipe.to_user)
       THEN /\ matches' = Append(matches, Match(swipe.from_user, swipe.to_user))
            /\ ret' = Some(Len(matches'))
       ELSE /\ matches' = matches
            /\ ret' = None
    /\ UNCHANGED <<engineVars, otherVars>>

add_match(match) ==
    /\ Len(matches) < MaxMatches
    /\ matches' = Append(matches, match)
    /\ UNCHANGED <<swipes, ret>>
    /\ UNCHANGED <<engineVars, otherVars>>

unmatch(i) ==
    /\ matches' = [matches EXCEPT ![i].is_active = FALSE]
    /\ UNCHANGED <<swipes, ret>>
    /\ UNCHANGED <<engineVars, otherVars>>

\* ------------------------------------------------------------- engine.py
\* Scores are in thousandths of a point; a draw r of random.random() is in
\* thousandths too, so the tie-breaker random.random() * 2.0 is 2 * r.
Draws == {0, 999}

SeqToSet(s) == {s[i] : i \in DOMAIN s}

\* lines 27-31: +20 for a recorded gender among the viewer's preferences,
\* -10 otherwise
gender_term(pref, bp) ==
    IF bp.gender # None /\ bp.gender[1] \in pref.gender_preference
    THEN 20000 ELSE 0 - 10000

\* variant: the out-of-range penalty is not subtracted
age_term_nopenalty(pref, bp) ==
    LET b_age == age(bp)
    IN  IF b_age = None \/ b_age = Some(0) THEN 0
        ELSE IF matches_age(pref, b_age[1]) THEN 15000
        ELSE 0

\* lines 33-41; "if b_age:" is false for None and for 0
age_term(pref, bp) ==
    LET b_age == age(bp)
    IN  IF b_age = None \/ b_age = Some(0) THEN 0
        ELSE IF matches_age(pref, b_age[1]) THEN 15000
        ELSE IF b_age[1] < pref.age_min THEN 0 - 1000 * (pref.age_min - b_age[1])
        ELSE IF b_age[1] > pref.age_max THEN 0 - 1000 * (b_age[1] - pref.age_max)
        ELSE 0

\* variant: common tags are counted once for each occurrence in the
\* candidate's list
interest_term_dups(pref, bp) ==
    5000 * Cardinality({i \in DOMAIN bp.preferences.interests :
                            bp.preferences.interests[i] \in SeqToSet(pref.interests)})

\* lines 43-44: 5.0 * len(set(...).intersection(set(...)))
interest_term(pref, bp) ==
    5000 * Cardinality(SeqToSet(pref.interests) \cap SeqToSet(bp.preferences.interests))

\* line 46: 0.1 * complete_percentage()
complete_term(bp) == 100 * complete_percentage(bp)

\* lines 48-53
distance_term(ap, bp) ==
    IF ap.location = None \/ bp.location = None THEN 0
    ELSE LET pref == ap.preferences
             dist == distance_km_to(ap.location[1], bp.location[1])
         IN  IF dist > pref.max_distance_km
             THEN 0 - 200 * (dist - pref.max_distance_km)
             ELSE Max(0, ((pref.max_distance_km - dist) * 10000)
                             \div Max(1, pref.max_distance_km))

\* variant: the tie-breaker is added to the sentinel too
score_noisy_sentinel(a, b, r) ==
    IF a.profile = None \/ b.profile = None THEN 0 - 1000 + 2 * r
    ELSE
    LET ap == a.profile[1]
        bp == b.profile[1]
        pref == ap.preferences
    IN  gender_term(pref, bp) + age_term(pref, bp) + interest_term(pref, bp)
            + complete_term(bp) + distance_term(ap, bp) + 2 * r

\* score(a, b) with the draw r of random.random() made explicit
score(a, b, r) ==
    IF a.profile = None \/ b.profile = None THEN 0 - 1000
    ELSE
    LET ap == a.profile[1]
        bp == b.profile[1]
        pref == ap.preferences
    IN  gender_term(pref, bp) + age_term(pref, bp) + interest_term(pref, bp)
            + complete_term(bp) + distance_term(ap, bp) + 2 * r

\* variant: the loop skips nobody
Eligible_all(user, cands) == cands

\* variant: the loop also skips the candidates that have no profile
Eligible_profiled(user, cands) ==
    SelectSeq(cands, LAMBDA c : c.user_id # user.user_id /\ c.profile # None)

\* the candidates the loop does not skip, in list order
Eligible(user, cands) ==
    SelectSeq(cands, LAMBDA c : c.user_id # user.user_id)

\* variant: reverse=True forgotten, the sort is ascending
RECURSIVE InsertAsc(_, _)
InsertAsc(s, e) ==
    IF s = <<>> THEN <<e>>
    ELSE IF Head(s)[1] <= e[1] THEN <<Head(s)>> \o InsertAsc(Tail(s), e)
    ELSE <<e>> \o s

\* scored.sort(key=lambda x: x[0], reverse=True): stable, equal keys keep
\* their order
RECURSIVE InsertDesc(_, _)
InsertDesc(s, e) ==
    IF s = <<>> THEN <<e>>
    ELSE IF Head(s)[1] >= e[1] THEN <<Head(s)>> \o InsertDesc(Tail(s), e)
    ELSE <<e>> \o s

RECURSIVE SortDesc(_)
SortDesc(s) ==
    IF s = <<>> THEN <<>>
    ELSE InsertDesc(SortDesc(SubSeq(s, 1, Len(s) - 1)), s[Len(s)])

\* variant: cuts one element too late
SliceTo_offbyone(s, k) ==
    LET stop == IF k + 1 > Len(s) THEN Len(s) ELSE Max(k + 1, 0)
    IN  SubSeq(s, 1, stop)

\* s[:k] of Python: a negative k counts from the end
SliceTo(s, k) ==
    LET stop == IF k < 0 THEN Max(Len(s) + k, 0)
                ELSE IF k > Len(s) THEN Len(s) ELSE k
    IN  SubSeq(s, 1, stop)

\* ------------------------------------------------- the engine's population
Prefs(g, lo, hi, d, tags) ==
    [gender_preference |-> g, age_min |-> lo, age_max |-> hi,
     max_distance_km |-> d, interests |-> tags]

DefaultGenders == {"female", "male", "nonbinary"}

ProfileOf(u) ==
    CASE u % 4 = 1 ->
           Some([display_name |-> "User1", birthdate |-> Some([year |-> 1996, month |-> 1, day |-> 1]),
                 gender |-> Some("female"), bio |-> "bio", photos |-> 1,
                 location |-> Some([lat |-> 0, lon |-> 0]),
                 preferences |-> Prefs(DefaultGenders, 18, 99, 100, <<"hiking", "coffee">>)])
      [] u % 4 = 2 ->
           Some([display_name |-> "User2", birthdate |-> Some([year |-> 2001, month |-> 12, day |-> 24]),
                 gender |-> Some("male"), bio |-> "", photos |-> 1,
                 location |-> Some([lat |-> 0, lon |-> 1]),
                 preferences |-> Prefs({"female"}, 18, 28, 200, <<"hiking">>)])
      [] u % 4 = 3 -> None
      [] OTHER ->
           Some([display_name |-> "", birthdate |-> None,
                 gender |-> None, bio |-> "", photos |-> 0,
                 location |-> None,
                 preferences |-> Prefs(DefaultGenders, 18, 99, 100, <<"movies", "hiking", "movies">>)])

User(u) == [user_id |-> u, profile |-> ProfileOf(u)]

Population == 1..PopSize

RECURSIVE SeqsUpTo(_, _)
SeqsUpTo(S, n) ==
    IF n = 0 THEN {<<>>}
    ELSE LET shorter == SeqsUpTo(S, n - 1)
         IN  shorter \cup {Append(s, x) : s \in shorter, x \in S}

\* compute_matches(user, candidates, top_k); rs[j] is the draw made by the
\* j-th call of score
compute_matches(rs) ==
    /\ pc = "ready"
    /\ LET user == User(viewer)
           elig == Eligible(user, [i \in DOMAIN candidates |-> User(candidates[i])])
       IN  scored' = [j \in DOMAIN elig |-> <<score(user, elig[j], rs[j]), elig[j].user_id>>]
    /\ ranked' = SliceTo(SortDesc(scored'), top_k)
    /\ result' = [i \in DOMAIN ranked' |-> ranked'[i][2]]
    /\ pc' = "done"
    /\ UNCHANGED <<viewer, candidates, top_k>>
    /\ UNCHANGED <<storeVars, otherVars, index>>

\* ------------------------------------------- the arguments of score calls
Date(y, m, d) == [year |-> y, month |-> m, day |-> d]

\* birthdates that give the ages 0, -1, 24, 30 and 100 on the day of the run
Birthdates ==
    {Date(2026, 1, 1), Date(2027, 1, 1), Date(2001, 12, 24), Date(1996, 1, 1),
     Date(1926, 11, 6)}

\* 111, 222, ... km east of the viewer, and one place 555 km away
Locations == {[lat |-> 0, lon |-> k] : k \in 0..MaxDeg} \cup {[lat |-> 3, lon |-> 4]}

InterestLists == {<<>>, <<"hiking", "hiking">>, <<"coffee", "hiking", "movies">>}

Opt(S) == {None} \cup {Some(x) : x \in S}

CandidateProfiles ==
    {[display_name |-> n, birthdate |-> bd, gender |-> g, bio |-> "", photos |-> 0,
      location |-> l, preferences |-> Prefs(DefaultGenders, 18, 99, 100, t)] :
        n \in {"", "Cand"}, bd \in Opt(Birthdates), g \in Opt({"female", "other"}),
        l \in Opt(Locations), t \in InterestLists}

\* max_distance_km values for which the proximity bonus is a whole number of
\* thousandths at every distance of the model
MaxDistances == {0, 1, 100, 250}

ViewerProfile(lo, hi, d, l) ==
    [display_name |-> "Viewer", birthdate |-> Some(Date(1996, 1, 1)),
     gender |-> Some("male"), bio |-> "bio", photos |-> 1, location |-> l,
     preferences |-> Prefs(DefaultGenders, lo, hi, d, <<"hiking", "coffee", "hiking">>)]

ViewerProfiles ==
    {ViewerProfile(18, 28, d, Some([lat |-> 0, lon |-> 0])) : d \in MaxDistances}
        \cup {ViewerProfile(0, 30, 250, Some([lat |-> 0, lon |-> 0])),
              ViewerProfile(18, 28, 100, None)}

\* the candidates compared with a candidate of profile p: p itself, p with
\* another birthdate, another location or other interests, p with another
\* choice of filled display name, bio and photos, and p with its birthdate,
\* gender or location removed
Variations(p) ==
    {p}
    \cup (IF p.birthdate = None THEN {}
          ELSE {[p EXCEPT !.birthdate = Some(d)] : d \in Birthdates})
    \cup (IF p.location = None THEN {}
          ELSE {[p EXCEPT !.location = Some(l)] : l \in Locations})
    \cup {[p EXCEPT !.preferences.interests = t] : t \in InterestLists}
    \cup {[p EXCEPT !.display_name = n, !.bio = b, !.photos = k] :
              n \in {"", "Cand"}, b \in {"", "bio"}, k \in {0, 1}}
    \cup {[p EXCEPT !.birthdate = None], [p EXCEPT !.gender = None],
          [p EXCEPT !.location = None]}

\* score(a, b) and score(a, b2) with the same draw
score_calls ==
    /\ sc.pc = "ready"
    /\ sc' = [sc EXCEPT !.pc = "done",
                        !.out = score(sc.a, sc.b, sc.r),
                        !.out2 = score(sc.a, sc.b2, sc.r)]
    /\ UNCHANGED <<storeVars, engineVars, conv, ccall, race, index>>

\* ------------------------------------------- models.py: Conversation
\* user_ids of the users that take part in or write to the conversation
ConvUsers == {1, 2, 3}

\* two instants a message can carry as its sent_at
SentAts == {1, 2}

\* Message(sender=..., sent_at=...); the sender defaults to None
Message(s, t) == [sender |-> s, sent_at |-> t]

Messages == {Message(s, t) : s \in Opt(ConvUsers), t \in SentAts}

\* Conversation(participants=...): no message yet, last_message_at None
Conversation(ps) == [participants |-> ps, messages |-> <<>>, last_message_at |-> None]

\* what a call did: the message it was given and the exception it raised
Call(op, m, e) == [op |-> op, msg |-> m, raised |-> e]

\* any(p.user_id == m.sender.user_id for p in self.participants): reading
\* user_id of a None sender raises AttributeError at the first participant;
\* over no participant at all any() is False
SenderCheck(ps, m) ==
    IF m.sender = None
    THEN IF ps = <<>> THEN "ValueError" ELSE "AttributeError"
    ELSE IF \E i \in DOMAIN ps : ps[i] = m.sender[1] THEN "none" ELSE "ValueError"

\* variant: the message is appended before the sender is looked at
send_message_appendfirst(m) ==
    /\ Len(conv.messages) < MaxMessages
    /\ conv' = [conv EXCEPT !.messages = Append(@, m), !.last_message_at = Some(m.sent_at)]
    /\ ccall' = Call("send_message", Some(m), SenderCheck(conv.participants, m))
    /\ UNCHANGED <<storeVars, engineVars, sc, race, index>>

send_message(m) ==
    /\ Len(conv.messages) < MaxMessages
    /\ LET e == SenderCheck(conv.participants, m)
       IN  /\ conv' = IF e # "none" THEN conv
                      ELSE [conv EXCEPT !.messages = Append(@, m),
                                        !.last_message_at = Some(m.sent_at)]
           /\ ccall' = Call("send_message", Some(m), e)
    /\ UNCHANGED <<storeVars, engineVars, sc, race, index>>

add_participant(user) ==
    /\ conv' = IF \E i \in DOMAIN conv.participants : conv.participants[i] = user
               THEN conv
               ELSE [conv EXCEPT !.participants = Append(@, user)]
    /\ ccall' = Call("add_participant", None, "none")
    /\ UNCHANGED <<storeVars, engineVars, sc, race, index>>

\* ----------------------------- storage.py: two add_swipe calls in flight
Threads == {1, 2}

AllSwipes == {Swipe(f, t, d) : f \in Users, t \in Users, d \in Directions}

\* a call that has not started yet
Pending(swipe) == [pc |-> "append", swipe |-> swipe, ret |-> None]

\* variant: the lock is released right after the swipe is stored
locked_add_swipe_appendonly(i) ==
    LET swipe == race.t[i].swipe
    IN  /\ race.atomic
        /\ race.t[i].pc = "append"
        /\ swipes' = Append(swipes, swipe)
        /\ matches' = matches
        /\ race' = [race EXCEPT !.t[i].pc = IF swipe.direction = "like" THEN "scan" ELSE "done"]
        /\ UNCHANGED <<ret, engineVars, sc, conv, ccall, index>>

\* lines 29-37 with nothing in between: the call of thread i under one lock
locked_add_swipe(i) ==
    LET swipe == race.t[i].swipe
    IN  /\ race.atomic
        /\ race.t[i].pc = "append"
        /\ swipes' = Append(swipes, swipe)
        /\ IF /\ swipe.direction = "like"
              /\ ReverseLikeIn(swipes', swipe)
              /\ ~_match_exists_between(matches, swipe.from_user, swipe.to_user)
           THEN /\ matches' = Append(matches, Match(swipe.from_user, swipe.to_user))
                /\ race' = [race EXCEPT !.t[i].pc = "done", !.t[i].ret = Some(Len(matches'))]
           ELSE /\ matches' = matches
                /\ race' = [race EXCEPT !.t[i].pc = "done"]
        /\ UNCHANGED <<ret, engineVars, sc, conv, ccall, index>>

\* line 29: self.swipes[swipe.swipe_id] = swipe; line 30 sends a pass to
\* the return of line 37
store_swipe(i) ==
    LET swipe == race.t[i].swipe
    IN  /\ ~race.atomic
        /\ race.t[i].pc = "append"
        /\ swipes' = Append(swipes, swipe)
        /\ race' = [race EXCEPT !.t[i].pc = IF swipe.direction = "like" THEN "scan" ELSE "done"]
        /\ UNCHANGED <<matches, ret, engineVars, sc, conv, ccall, index>>

\* lines 31-32: the loop over the log, up to a reverse like
scan_log(i) ==
    /\ race.t[i].pc = "scan"
    /\ race' = [race EXCEPT !.t[i].pc =
                    IF ReverseLikeIn(swipes, race.t[i].swipe) THEN "check" ELSE "done"]
    /\ UNCHANGED <<storeVars, engineVars, sc, conv, ccall, index>>

\* line 33: a match found here is found again at every later reverse like,
\* so the loop ends without a match
check_match(i) ==
    LET swipe == race.t[i].swipe
    IN  /\ race.t[i].pc = "check"
        /\ race' = [race EXCEPT !.t[i].pc =
                        IF _match_exists_between(matches, swipe.from_user, swipe.to_user)
                        THEN "done" ELSE "insert"]
        /\ UNCHANGED <<storeVars, engineVars, sc, conv, ccall, index>>

\* lines 34-36
insert_match(i) ==
    LET swipe == race.t[i].swipe
    IN  /\ race.t[i].pc = "insert"
        /\ matches' = Append(matches, Match(swipe.from_user, swipe.to_user))
        /\ race' = [race EXCEPT !.t[i].pc = "done", !.t[i].ret = Some(Len(matches'))]
        /\ UNCHANGED <<swipes, ret, engineVars, sc, conv, ccall, index>>

\* ------------------------------------------------ the indexed reconciler
\* The reconciler the linear scan stands in for: it keeps the set of
\* (actor, target) pairs that have a recorded like and the set of matched
\* unordered pairs, and looks both up instead of scanning.
RefineUsers == {"A", "B", "C"}

DistinctSwipes ==
    {w \in {Swipe(f, t, d) : f \in RefineUsers, t \in RefineUsers, d \in Directions} :
        w.from_user # w.to_user}

EmptyIndex == [likes |-> {}, matched |-> {}, ret |-> None]

\* record_swipe on the index: a like is entered, and a match of the pair is
\* made and returned when the reverse like is present and the pair is not
\* matched yet
record_swipe(swipe) ==
    LET f == swipe.from_user
        t == swipe.to_user
        likes1 == IF swipe.direction = "like" THEN index.likes \cup {<<f, t>>} ELSE index.likes
    IN  index' = IF /\ swipe.direction = "like"
                    /\ <<t, f>> \in likes1
                    /\ {f, t} \notin index.matched
                 THEN [likes |-> likes1, matched |-> index.matched \cup {{f, t}},
                       ret |-> Some({f, t})]
                 ELSE [likes |-> likes1, matched |-> index.matched, ret |-> None]

\* -------------------------------------------------------- specifications
StoreInit ==
    /\ swipes = <<>>
    /\ matches = <<>>
    /\ ret = None

EngineIdle ==
    /\ pc = "idle"
    /\ viewer = 1
    /\ candidates = <<>>
    /\ top_k = 10
    /\ scored = <<>>
    /\ ranked = <<>>
    /\ result = <<>>

\* the parts of the state a specification does not use stay at None
ScoreIdle == sc = None

ConvIdle == conv = None /\ ccall = None

RaceIdle == race = None

IndexIdle == index = None

Init == StoreInit /\ EngineIdle /\ ScoreIdle /\ ConvIdle /\ RaceIdle /\ IndexIdle

DoAddSwipe ==
    \E f \in Users, t \in Users, d \in Directions :
        add_swipe(Swipe(f, t, d)) /\ UNCHANGED index

DoAddMatch == \E a \in Users, b \in Users : add_match(Match(a, b)) /\ UNCHANGED index

DoUnmatch == \E i \in DOMAIN matches : unmatch(i) /\ UNCHANGED index

Next == DoAddSwipe \/ DoAddMatch \/ DoUnmatch

Spec == Init /\ [][Next]_vars

\* the store driven through add_swipe alone
NextSwipes == DoAddSwipe

SpecSwipes == Init /\ [][NextSwipes]_vars

\* one call of compute_matches on arguments drawn from the population
InitEngine ==
    /\ StoreInit
    /\ pc = "ready"
    /\ viewer \in Population
    /\ candidates \in SeqsUpTo(Population, MaxCands)
    /\ top_k \in (0 - MaxTopK)..MaxTopK
    /\ scored = <<>>
    /\ ranked = <<>>
    /\ result = <<>>
    /\ ScoreIdle /\ ConvIdle /\ RaceIdle /\ IndexIdle

\* rs is the stream of draws of random.random(): the loop calls score at
\* most once for each entry of the candidate list
DoComputeMatches == \E rs \in [DOMAIN candidates -> Draws] : compute_matches(rs)

NextEngine == DoComputeMatches

SpecEngine == InitEngine /\ [][NextEngine]_vars

\* one viewer, a candidate and a second candidate that differs from it in one
\* respect, scored with the same draw
InitScore ==
    /\ StoreInit /\ EngineIdle /\ ConvIdle /\ RaceIdle /\ IndexIdle
    /\ \E ap \in Opt(ViewerProfiles), bp \in Opt(CandidateProfiles), r \in Draws :
         \E bp2 \in (IF bp = None THEN {None} ELSE {Some(q) : q \in Variations(bp[1])}) :
            sc = [pc |-> "ready",
                  a |-> [user_id |-> 1, profile |-> ap],
                  b |-> [user_id |-> 2, profile |-> bp],
                  b2 |-> [user_id |-> 3, profile |-> bp2],
                  r |-> r, out |-> 0, out2 |-> 0]

NextScore == score_calls

SpecScore == InitScore /\ [][NextScore]_vars

\* a conversation constructed empty or for two users, then written to
InitConv ==
    /\ StoreInit
    /\ EngineIdle /\ ScoreIdle /\ RaceIdle /\ IndexIdle
    /\ conv \in {Conversation(<<>>), Conversation(<<1, 2>>)}
    /\ ccall = Call("init", None, "none")

DoSendMessage == \E m \in Messages : send_message(m)

DoAddParticipant == \E u \in ConvUsers : add_participant(u)

NextConv == DoSendMessage \/ DoAddParticipant

SpecConv == InitConv /\ [][NextConv]_vars

\* two calls of add_swipe on an empty store, either each under one lock or
\* interleaved step by step
InitRace ==
    /\ StoreInit
    /\ EngineIdle /\ ScoreIdle /\ ConvIdle /\ IndexIdle
    /\ race \in [atomic : BOOLEAN, t : [Threads -> {Pending(w) : w \in AllSwipes}]]

DoLocked == \E i \in Threads : locked_add_swipe(i)

DoStore == \E i \in Threads : store_swipe(i)

DoScan == \E i \in Threads : scan_log(i)

DoCheck == \E i \in Threads : check_match(i)

DoInsert == \E i \in Threads : insert_match(i)

NextRace == DoLocked \/ DoStore \/ DoScan \/ DoCheck \/ DoInsert

SpecRace == InitRace /\ [][NextRace]_vars

\* add_swipe and the indexed reconciler fed the same swipes between
\* distinct users
InitRefine ==
    /\ StoreInit
    /\ EngineIdle /\ ScoreIdle /\ ConvIdle /\ RaceIdle
    /\ index = EmptyIndex

DoBoth == \E swipe \in DistinctSwipes : add_swipe(swipe) /\ record_swipe(swipe)

NextRefine == DoBoth

SpecRefine == InitRefine /\ [][NextRefine]_vars

\* ----------------------------------------------------------------- claims
PairOf(m) == {m.user_a, m.user_b}

MatchesOfPair(ms, x, y) == {i \in DOMAIN ms : PairOf(ms[i]) = {x, y}}

Min(a, b) == IF a <= b THEN a ELSE b

\* C1: after any sequence of add_swipe calls db.matches holds at most one
\* Match for each unordered pair of users.
C1_OneMatchPerPair ==
    \A i \in DOMAIN matches : \A j \in DOMAIN matches :
        i # j => PairOf(matches[i]) # PairOf(matches[j])

\* a third like between a pair whose likes were already reciprocated, and
\* still one match for the pair
C1_Witness ==
    \E x \in Users, y \in Users :
        /\ x # y
        /\ Len(swipes) = 3
        /\ swipes[1] = Swipe(x, y, "like")
        /\ swipes[2] = Swipe(y, x, "like")
        /\ swipes[3] = Swipe(x, y, "like")
        /\ Cardinality(MatchesOfPair(matches, x, y)) = 1

\* C2: for distinct X and Y, add_swipe of a like X -> Y returns a Match
\* exactly when a like Y -> X was recorded earlier and no match for {X, Y}
\* is in db.matches; that Match references {X, Y} and is stored under its
\* match_id; in every other case the call returns None.
C2_MatchIffReciprocated ==
    [][ (Len(swipes') = Len(swipes) + 1
            /\ swipes'[Len(swipes')].from_user # swipes'[Len(swipes')].to_user)
        => LET s == swipes'[Len(swipes')]
               X == s.from_user
               Y == s.to_user
               earlier == \E i \in DOMAIN swipes : swipes[i] = Swipe(Y, X, "like")
               paired == MatchesOfPair(matches, X, Y) # {}
           IN  IF s.direction = "like" /\ earlier /\ ~paired
               THEN /\ ret' # None
                    /\ ret'[1] \notin DOMAIN matches
                    /\ DOMAIN matches' = DOMAIN matches \cup {ret'[1]}
                    /\ PairOf(matches'[ret'[1]]) = {X, Y}
                    /\ \A j \in DOMAIN matches : matches'[j] = matches[j]
               ELSE ret' = None
      ]_vars

\* the latest call recorded a reciprocated like and returned the stored match
C2_Witness ==
    \E x \in Users, y \in Users :
        /\ x # y
        /\ Len(swipes) >= 2
        /\ swipes[Len(swipes)] = Swipe(x, y, "like")
        /\ \E i \in 1..(Len(swipes) - 1) : swipes[i] = Swipe(y, x, "like")
        /\ ret # None
        /\ ret[1] \in DOMAIN matches
        /\ PairOf(matches[ret[1]]) = {x, y}

\* C3: add_swipe of a pass returns None and leaves db.matches unchanged, and
\* a like X -> Y returns None and adds no match when the log holds no like
\* Y -> X, whatever passes Y -> X it holds.
C3_PassNeverMatches ==
    [][ Len(swipes') = Len(swipes) + 1
        => LET s == swipes'[Len(swipes')]
               reverseLike ==
                   \E i \in DOMAIN swipes' :
                       swipes'[i] = Swipe(s.to_user, s.from_user, "like")
           IN  (s.direction = "pass" \/ ~reverseLike)
                   => (ret' = None /\ matches' = matches)
      ]_vars

\* a pass Y -> X, then a like X -> Y that matched nothing, then a pass Y -> X
\* recorded although the like X -> Y was waiting for its reverse
C3_Witness ==
    \E x \in Users, y \in Users :
        /\ x # y
        /\ swipes = <<Swipe(y, x, "pass"), Swipe(x, y, "like"), Swipe(y, x, "pass")>>
        /\ matches = <<>>
        /\ ret = None

\* C4: at most one Match with is_active = True exists in db.matches for any
\* unordered pair of users, after add_swipe, add_match and unmatch in any
\* order.
C4_OneActiveMatchPerPair ==
    \A i \in DOMAIN matches : \A j \in DOMAIN matches :
        (i # j /\ matches[i].is_active /\ matches[j].is_active)
            => PairOf(matches[i]) # PairOf(matches[j])

\* C5: every Match that add_swipe creates joins two distinct users.
C5_MatchJoinsDistinctUsers ==
    \A i \in DOMAIN matches : matches[i].user_a # matches[i].user_b

\* C6: once a Match for the pair {A, B} is in db.matches, active or not,
\* every later like between A and B recorded by add_swipe returns None and
\* adds no Match.
C6_DedupIgnoresActiveFlag ==
    [][ (Len(swipes') = Len(swipes) + 1
            /\ MatchesOfPair(matches, swipes'[Len(swipes')].from_user,
                             swipes'[Len(swipes')].to_user) # {})
        => (ret' = None /\ matches' = matches)
      ]_vars

\* the only match of the pair is deactivated, a reciprocated like between
\* the pair is the latest swipe, and it returned None
C6_Witness ==
    \E x \in Users, y \in Users :
        /\ x # y
        /\ Len(swipes) >= 2
        /\ swipes[Len(swipes)] = Swipe(x, y, "like")
        /\ \E i \in 1..(Len(swipes) - 1) : swipes[i] = Swipe(y, x, "like")
        /\ Cardinality(MatchesOfPair(matches, x, y)) = 1
        /\ \A j \in MatchesOfPair(matches, x, y) : ~matches[j].is_active
        /\ ret = None

\* number of entries of the candidate list that are not the viewer
NumEligible == Cardinality({i \in DOMAIN candidates : candidates[i] # viewer})

\* C7: compute_matches returns an empty sequence for every top_k <= 0.
C7_EmptyForNonPositiveTopK ==
    (pc = "done" /\ top_k <= 0) => result = <<>>

\* C8: for every top_k >= 0 compute_matches returns exactly min(top_k, n)
\* users, n the number of candidate entries that are not the viewer.
C8_LengthIsMin ==
    (pc = "done" /\ top_k >= 0) => Len(result) = Min(top_k, NumEligible)

\* the list holds the viewer and more eligible entries than top_k
C8_Witness ==
    /\ pc = "done"
    /\ top_k > 0
    /\ top_k < NumEligible
    /\ viewer \in SeqToSet(candidates)
    /\ Len(result) = top_k

\* C9: the result never contains the viewer, and every returned user is an
\* element of the candidate list.
C9_ViewerExcluded ==
    pc = "done" =>
        \A i \in DOMAIN result :
            /\ result[i] # viewer
            /\ result[i] \in SeqToSet(candidates)

\* the viewer is in the candidate list twice and the result is not empty
C9_Witness ==
    /\ pc = "done"
    /\ Cardinality({i \in DOMAIN candidates : candidates[i] = viewer}) >= 2
    /\ result # <<>>

Count(e, s) == Cardinality({i \in DOMAIN s : s[i] = e})

\* C10: with the score computed once for each candidate during the call, the
\* returned sequence is in non-increasing score order and every returned
\* candidate's score is at least the score of every eligible candidate left
\* out.
C10_BestFirst ==
    pc = "done" =>
        /\ Len(result) = Len(ranked)
        /\ \A i \in DOMAIN ranked : result[i] = ranked[i][2]
        /\ \A i \in DOMAIN ranked : Count(ranked[i], ranked) <= Count(ranked[i], scored)
        /\ \A i \in DOMAIN ranked : \A j \in DOMAIN ranked :
               i < j => ranked[i][1] >= ranked[j][1]
        /\ \A p \in DOMAIN scored :
               Count(scored[p], ranked) < Count(scored[p], scored)
                   => \A i \in DOMAIN ranked : ranked[i][1] >= scored[p][1]

\* two candidates were appended in ascending score order, one is returned
\* and a lower-scored one is left out
C10_Witness ==
    /\ pc = "done"
    /\ Len(scored) >= 2
    /\ scored[1][1] < scored[2][1]
    /\ Len(ranked) >= 1
    /\ Len(ranked) < Len(scored)
    /\ ranked[1] = scored[2]

\* ------------------------------------------------- claims about score
ScoreDone == sc.pc = "done"

BothProfiles == sc.a.profile # None /\ sc.b.profile # None /\ sc.b2.profile # None

AgeOf(p) == age_from_birthdate(p.birthdate[1])

InRange(pref, n) == pref.age_min <= n /\ n <= pref.age_max

\* the age term as the specification words it, for a computed age n
StatedAgeTerm(pref, n) ==
    IF InRange(pref, n) THEN 15000
    ELSE IF n < pref.age_min THEN 0 - 1000 * (pref.age_min - n)
    ELSE 0 - 1000 * (n - pref.age_max)

\* C11: for every candidate that has a birthdate the age term adds 15.0 when
\* the computed age lies in [age_min, age_max] and otherwise subtracts the
\* shortfall, for every computed age including 0.
C11_AgeTermForEveryBirthdate ==
    (ScoreDone /\ sc.a.profile # None /\ sc.b.profile # None
        /\ sc.b.profile[1].birthdate # None)
    => LET ap == sc.a.profile[1]
           bp == sc.b.profile[1]
           pref == ap.preferences
       IN  sc.out = gender_term(pref, bp) + StatedAgeTerm(pref, AgeOf(bp))
                      + interest_term(pref, bp) + complete_term(bp)
                      + distance_term(ap, bp) + 2 * sc.r

\* C12: with the same draw and age_min <= age_max, of two candidates that
\* both have a birthdate and are identical except for it, the one whose age
\* lies inside [age_min, age_max] scores strictly higher than the one whose
\* age lies outside.
C12_InRangeAgeScoresHigher ==
    (ScoreDone /\ BothProfiles)
    => LET pref == sc.a.profile[1].preferences
           bp == sc.b.profile[1]
           bp2 == sc.b2.profile[1]
       IN  (/\ bp.birthdate # None
            /\ bp2.birthdate # None
            /\ [bp2 EXCEPT !.birthdate = bp.birthdate] = bp
            /\ pref.age_min <= pref.age_max
            /\ InRange(pref, AgeOf(bp))
            /\ ~InRange(pref, AgeOf(bp2)))
           => sc.out > sc.out2

\* an in-range candidate of age 0 against one of age 100
C12_Witness ==
    /\ ScoreDone /\ BothProfiles
    /\ sc.a.profile[1].preferences.age_min = 0
    /\ sc.b.profile[1].birthdate = Some(Date(2026, 1, 1))
    /\ sc.b2.profile[1] = [sc.b.profile[1] EXCEPT !.birthdate = Some(Date(1926, 11, 6))]
    /\ sc.out > sc.out2

\* a field is filled
Filled(p) ==
    [display_name |-> p.display_name # "", birthdate |-> p.birthdate # None,
     gender |-> p.gender # None, bio |-> p.bio # "", photos |-> p.photos > 0,
     location |-> p.location # None]

\* the completeness percentage, counted from the filled fields
Percentage(p) ==
    (100 * Cardinality({f \in DOMAIN Filled(p) : Filled(p)[f]})) \div 6

\* p and q differ at most in which of the six completeness fields are
\* filled: a field filled in both has the same value in both
DifferInPresenceOnly(p, q) ==
    /\ p.preferences = q.preferences
    /\ (p.display_name # "" /\ q.display_name # "") => p.display_name = q.display_name
    /\ (p.birthdate # None /\ q.birthdate # None) => p.birthdate = q.birthdate
    /\ (p.gender # None /\ q.gender # None) => p.gender = q.gender
    /\ (p.bio # "" /\ q.bio # "") => p.bio = q.bio
    /\ (p.photos > 0 /\ q.photos > 0) => p.photos = q.photos
    /\ (p.location # None /\ q.location # None) => p.location = q.location

\* C13, as claimed: of two candidates that differ only in which of the six
\* completeness fields are present, the one with the higher completeness
\* percentage never scores lower.
C13_AsClaimed ==
    (ScoreDone /\ BothProfiles)
    => LET bp == sc.b.profile[1]
           bp2 == sc.b2.profile[1]
       IN  DifferInPresenceOnly(bp, bp2)
           => /\ Percentage(bp) >= Percentage(bp2) => sc.out >= sc.out2
              /\ Percentage(bp2) >= Percentage(bp) => sc.out2 >= sc.out

\* C13, amended: of two candidates that differ only in which of the fields
\* display name, bio and photos are present, the one with the higher
\* completeness percentage never scores lower.
C13_NameBioPhotos ==
    (ScoreDone /\ BothProfiles)
    => LET bp == sc.b.profile[1]
           bp2 == sc.b2.profile[1]
       IN  (/\ DifferInPresenceOnly(bp, bp2)
            /\ bp.birthdate = bp2.birthdate
            /\ bp.gender = bp2.gender
            /\ bp.location = bp2.location)
           => /\ Percentage(bp) >= Percentage(bp2) => sc.out >= sc.out2
              /\ Percentage(bp2) >= Percentage(bp) => sc.out2 >= sc.out

\* the second candidate has the bio and the photo that the first lacks, and
\* scores higher
C13_Witness ==
    /\ ScoreDone /\ BothProfiles
    /\ sc.b2.profile[1] = [sc.b.profile[1] EXCEPT !.bio = "bio", !.photos = 1]
    /\ Percentage(sc.b2.profile[1]) > Percentage(sc.b.profile[1])
    /\ sc.out2 > sc.out

\* squared distance in degrees: orders the places as their distance does
SquaredDegrees(l1, l2) ==
    (l1.lat - l2.lat) * (l1.lat - l2.lat) + (l1.lon - l2.lon) * (l1.lon - l2.lon)

\* the distance is within max_distance_km: (111 * deg)^2 <= max^2
Within(d2, maxkm) == 111 * 111 * d2 <= maxkm * maxkm

\* C14: with the same draw, viewer and candidates located and
\* max_distance_km >= 0, the nearer of two candidates that differ only in
\* their location scores strictly higher; and a location within
\* max_distance_km adds a bonus between 0 and 10 to the score of the same
\* candidate without the location term.
C14_NearerScoresHigher ==
    (ScoreDone /\ BothProfiles /\ sc.a.profile[1].location # None
        /\ sc.b.profile[1].location # None
        /\ sc.a.profile[1].preferences.max_distance_km >= 0)
    => LET ap == sc.a.profile[1]
           bp == sc.b.profile[1]
           bp2 == sc.b2.profile[1]
           d1 == SquaredDegrees(ap.location[1], bp.location[1])
       IN  /\ (/\ bp2.location # None
               /\ [bp2 EXCEPT !.location = bp.location] = bp
               /\ d1 < SquaredDegrees(ap.location[1], bp2.location[1]))
              => sc.out > sc.out2
           /\ (/\ bp2 = [bp EXCEPT !.location = None]
               /\ Within(d1, ap.preferences.max_distance_km))
              => LET bonus == (sc.out - 100 * Percentage(bp))
                                - (sc.out2 - 100 * Percentage(bp2))
                 IN  0 <= bonus /\ bonus <= 10000

\* max_distance_km is 0, the first candidate is at the viewer's place and the
\* second one 111 km away
C14_Witness ==
    /\ ScoreDone /\ BothProfiles
    /\ sc.a.profile[1].preferences.max_distance_km = 0
    /\ sc.a.profile[1].location = Some([lat |-> 0, lon |-> 0])
    /\ sc.b.profile[1].location = Some([lat |-> 0, lon |-> 0])
    /\ sc.b2.profile[1] = [sc.b.profile[1] EXCEPT !.location = Some([lat |-> 0, lon |-> 1])]
    /\ sc.out > sc.out2

\* number of distinct tags that occur in both interest lists
SharedTags(p, q) ==
    Cardinality({t \in {"hiking", "coffee", "movies"} :
        /\ \E i \in DOMAIN p.preferences.interests : p.preferences.interests[i] = t
        /\ \E j \in DOMAIN q.preferences.interests : q.preferences.interests[j] = t})

\* C15: with the same draw, two candidates that differ only in their
\* interest lists differ in score by 5.0 times the difference of their numbers
\* of distinct tags shared with the viewer (a repeated tag counts once), so
\* the score is non-decreasing in the number of shared tags.
C15_FivePerSharedTag ==
    (ScoreDone /\ BothProfiles)
    => LET ap == sc.a.profile[1]
           bp == sc.b.profile[1]
           bp2 == sc.b2.profile[1]
       IN  [bp2 EXCEPT !.preferences.interests = bp.preferences.interests] = bp
           => /\ sc.out - sc.out2 = 5000 * (SharedTags(ap, bp) - SharedTags(ap, bp2))
              /\ SharedTags(ap, bp) >= SharedTags(ap, bp2) => sc.out >= sc.out2

\* the viewer lists hiking twice, the first candidate too, the second
\* candidate has no interests: one shared tag, 5 points
C15_Witness ==
    /\ ScoreDone /\ BothProfiles
    /\ sc.b.profile[1].preferences.interests = <<"hiking", "hiking">>
    /\ sc.b2.profile[1] = [sc.b.profile[1] EXCEPT !.preferences.interests = <<>>]
    /\ sc.out - sc.out2 = 5000

\* C16: score(a, b) returns exactly -1.0, with no tie-breaker added, whenever
\* a or b has no profile.
C16_SentinelWithoutProfile ==
    (ScoreDone /\ (sc.a.profile = None \/ sc.b.profile = None)) => sc.out = 0 - 1000

\* only the viewer lacks a profile, the draw is not 0
C16_Witness ==
    /\ ScoreDone
    /\ sc.a.profile = None
    /\ sc.b.profile # None
    /\ sc.r > 0
    /\ sc.out = 0 - 1000

\* --------------------------------------- claims about Conversation
IsParticipant(c, m) ==
    m.sender # None /\ \E i \in DOMAIN c.participants : c.participants[i] = m.sender[1]

\* C17: send_message of a message whose sender is not among the
\* participants (by user_id) signals an error and leaves messages and
\* last_message_at unchanged; a message from a participant is appended as the
\* last message and last_message_at becomes its sent_at.
C17_SendMessage ==
    [][ccall'.op = "send_message" =>
         LET m == ccall'.msg[1]
         IN  IF IsParticipant(conv, m)
             THEN /\ ccall'.raised = "none"
                  /\ conv'.messages = Append(conv.messages, m)
                  /\ conv'.last_message_at = Some(m.sent_at)
             ELSE /\ ccall'.raised # "none"
                  /\ conv'.messages = conv.messages
                  /\ conv'.last_message_at = conv.last_message_at]_vars

\* a participant's message was accepted, then a message of user 3, who is
\* not a participant, was refused with ValueError
C17_Witness ==
    /\ conv # None
    /\ ccall.op = "send_message"
    /\ ccall.raised = "ValueError"
    /\ ccall.msg[1].sender = Some(3)
    /\ Len(conv.messages) = 1
    /\ conv.last_message_at = Some(conv.messages[1].sent_at)
    /\ conv.last_message_at # Some(ccall.msg[1].sent_at)

\* --------------------------------- claims about concurrent add_swipe
BothDone == race.t[1].pc = "done" /\ race.t[2].pc = "done"

\* the two calls record likes A -> B and B -> A of distinct users
ReciprocalLikes ==
    LET s1 == race.t[1].swipe  s2 == race.t[2].swipe
    IN  /\ s1.direction = "like" /\ s2.direction = "like"
        /\ s1.from_user # s1.to_user
        /\ s2.from_user = s1.to_user /\ s2.to_user = s1.from_user

RacePairMatches ==
    Cardinality(MatchesOfPair(matches, race.t[1].swipe.from_user, race.t[1].swipe.to_user))

\* C18: when each of two add_swipe calls recording reciprocal likes A -> B
\* and B -> A runs as one atomic step, exactly one match for {A, B} results
\* in every interleaving; when their steps (store, scan, check, insert)
\* interleave, at least one and at most two result, and two are reachable
\* (C18_Witness).
C18_AtomicGivesOneMatch ==
    (BothDone /\ ReciprocalLikes) =>
        /\ race.atomic => RacePairMatches = 1
        /\ RacePairMatches \in {1, 2}

\* both calls ran unlocked to their end and left two matches for the pair,
\* each call having returned one of them
C18_Witness ==
    /\ race # None
    /\ ~race.atomic
    /\ BothDone /\ ReciprocalLikes
    /\ RacePairMatches = 2
    /\ race.t[1].ret # None /\ race.t[2].ret # None

\* ----------------------------------- claims about the linear scan
MatchedPairs == {PairOf(matches[i]) : i \in DOMAIN matches}

\* C19: over every sequence of swipes between distinct users, add_swipe and
\* the indexed reconciler return a match at exactly the same calls, the
\* matches they return join the same pair, and after every step db.matches
\* holds exactly the matched pairs of the index.
C19_ScanEqualsIndex ==
    index # None =>
        /\ (ret # None) <=> (index.ret # None)
        /\ ret # None => PairOf(matches[ret[1]]) = index.ret[1]
        /\ MatchedPairs = index.matched
        /\ Len(matches) = Cardinality(index.matched)

\* a pair was matched, and the latest swipe is a further reciprocated like
\* of that pair for which both returned nothing
C19_Witness ==
    /\ index # None
    /\ Len(swipes) = MaxSwipes
    /\ swipes[Len(swipes)].direction = "like"
    /\ ReverseLikeIn(swipes, swipes[Len(swipes)])
    /\ ret = None /\ index.ret = None
    /\ index.matched = {{swipes[Len(swipes)].from_user, swipes[Len(swipes)].to_user}}

\* ------------------------------ claims about profile-less candidates
\* C20: compute_matches ranks a candidate without a profile (and every
\* candidate of a viewer without a profile) with the score -1.0 instead of
\* leaving it out, so for top_k at least the number of candidate entries
\* that are not the viewer the result holds every user as often as the
\* candidate list does, and the viewer not at all.
C20_ProfilelessAreRanked ==
    pc = "done" =>
        /\ \A j \in DOMAIN scored :
               (ProfileOf(viewer) = None \/ ProfileOf(scored[j][2]) = None)
                   => scored[j][1] = 0 - 1000
        /\ top_k >= NumEligible =>
               \A u \in Population :
                   Count(u, result) = IF u = viewer THEN 0 ELSE Count(u, candidates)

\* the viewer has a profile, a user without one is listed twice next to a
\* user with one, and all three are returned, the scored one first
C20_Witness ==
    /\ pc = "done"
    /\ ProfileOf(viewer) # None
    /\ Len(result) = 3
    /\ top_k = 3
    /\ ProfileOf(result[1]) # None
    /\ ProfileOf(result[2]) = None
    /\ result[3] = result[2]

====
